---- MODULE Spec2Model ----
(***************************************************************************)
(* Model of triton-go's storage request executor                           *)
(* (Storage.executeRequest / Storage.executeRequestNoEncode) and of the    *)
(* createjob example program (main).                                       *)
(*                                                                         *)
(* Header values, dates, signatures and bodies are records tagged with     *)
(* their origin, so that two values are equal exactly when the strings     *)
(* they stand for are equal.                                               *)
(***************************************************************************)
EXTENDS Integers, Sequences, FiniteSets, TLC

\* ------------------------------------------------------------------ bounds
\* longest value list a caller gives for one header name
MaxVals == 2
\* most header names in one caller-supplied header map
MaxKeys == 2
\* number of distinct clock readings time.Now() may return
NumTimes == 2
\* most lines a job listing stream holds (example program)
MaxItems == 2

\* ------------------------------------------------------- program constants
StatusOK == 200
StatusMultipleChoices == 300

\* --------------------------------------------------------------- processes
Procs == {"p1", "p2"}
Solo == {"p1"}

\* ---------------------------------------------------------------- helpers
Last(s) == s[Len(s)]

Perms(S) ==
  {s \in [1..Cardinality(S) -> S] : \A i, j \in 1..Cardinality(S) : (i # j) => (s[i] # s[j])}

\* the empty string as a header value
EmptyStr == [src |-> "empty"]

\* ------------------------------------------------------------ http.Header
\* textproto.CanonicalMIMEHeaderKey, restricted to the names used here
CanonicalKey(k) ==
  CASE k = "content-type" -> "Content-Type"
    [] k = "date" -> "Date"
    [] k = "accept" -> "Accept"
    [] OTHER -> k

\* http.Header.Set on the request header: one value under the canonical name
HeaderSet(h, k, v) ==
  [c \in (DOMAIN h) \cup {CanonicalKey(k)} |-> IF c = CanonicalKey(k) THEN v ELSE h[c]]

\* http.Header.Get on the caller's map: the first value stored under the
\* canonical name, "" when the name is absent or has no values
HeaderGet(m, k) ==
  IF CanonicalKey(k) \in DOMAIN m /\ Len(m[CanonicalKey(k)]) > 0
    THEN m[CanonicalKey(k)][1]
    ELSE EmptyStr

\* for _, value := range values { req.Header.Set(key, value) }
RECURSIVE SetEach(_, _, _)
SetEach(h, k, values) ==
  IF values = << >> THEN h
  ELSE SetEach(HeaderSet(h, k, Head(values)), k, Tail(values))

\* for key, values := range *headers { ... }, visiting the keys in `order`
\* (Go leaves the iteration order of a map unspecified)
RECURSIVE MergeHeaders(_, _, _)
MergeHeaders(h, m, order) ==
  IF order = << >> THEN h
  ELSE MergeHeaders(SetEach(h, Head(order), m[Head(order)]), m, Tail(order))

\* ------------------------------------------------------------------ errors
NoErr == [kind |-> "none"]

\* errwrap.Wrapf(context + ": {{err}}", cause)
Wrapf(context, cause) == [kind |-> "wrapped", context |-> context, cause |-> cause]

\* ------------------------------------------------------------------ inputs
CallerKeys == {"Content-Type", "content-type", "date", "X-Durability-Level"}

\* the i-th value the caller lists under header name k
CallerVal(k, i) == [src |-> "caller", key |-> k, i |-> i]

\* value lists a caller may give for k: n = -1 is the single value "",
\* otherwise the first n of the caller's values for k
ValList(k, n) ==
  IF n = -1 THEN <<EmptyStr>> ELSE [i \in 1..n |-> CallerVal(k, i)]

\* the lists tried for k; the empty string is tried for Content-Type, the
\* one name whose value the executor compares with ""
ValLists(k) == IF k = "Content-Type" THEN (-1)..MaxVals ELSE 0..MaxVals

HeaderMaps ==
  UNION {{[k \in K |-> ValList(k, f[k])] :
            f \in {g \in [K -> (-1)..MaxVals] : \A k \in K : g[k] \in ValLists(k)}} :
           K \in {X \in SUBSET CallerKeys : Cardinality(X) <= MaxKeys}}

\* *http.Header: nil, or a pointer to a map
HeaderPtrs ==
  {[isNil |-> TRUE, m |-> << >>]} \cup {[isNil |-> FALSE, m |-> m] : m \in HeaderMaps}

\* *url.Values: nil, or a pointer to a map
QueryPtrs ==
  {[isNil |-> TRUE, m |-> << >>],
   [isNil |-> FALSE, m |-> [marker |-> "m1", limit |-> "10"]]}

Methods == {"POST", "BAD METHOD"}
Paths == {"/jobs"}

\* Body interface{} of RequestInput: nil, a value encoding/json can
\* serialize, or one it cannot (a channel)
StructuredBodies ==
  {[kind |-> "nil"], [kind |-> "value", v |-> "CreateJobInput"], [kind |-> "chan"]}

\* Body io.ReadSeeker of RequestNoEncodeInput: nil or a byte stream
StreamBodies == {[kind |-> "nil"], [kind |-> "stream", bytes |-> <<104, 105>>]}

RequestInputs ==
  [Method : Methods, Path : Paths, Query : QueryPtrs, Headers : HeaderPtrs,
   Body : StructuredBodies]

RequestNoEncodeInputs ==
  [Method : Methods, Path : Paths, Query : QueryPtrs, Headers : HeaderPtrs,
   Body : StreamBodies]

\* descriptors used by the concurrent specification
ConcHeaderPtrs ==
  {[isNil |-> TRUE, m |-> << >>],
   [isNil |-> FALSE, m |-> [k \in {"X-Durability-Level"} |-> ValList(k, 1)]]}

ConcRequestInputs ==
  [Method : {"POST"}, Path : {"/jobs", "/stor"}, Query : {[isNil |-> TRUE, m |-> << >>]},
   Headers : ConcHeaderPtrs, Body : {[kind |-> "value", v |-> "CreateJobInput"]}]

ConcRequestNoEncodeInputs ==
  [Method : {"PUT"}, Path : {"/stor"}, Query : {[isNil |-> TRUE, m |-> << >>]},
   Headers : ConcHeaderPtrs, Body : {[kind |-> "stream", bytes |-> <<104, 105>>]}]

\* values of the MANTA_URL environment variable
MantaURLs == {"https://us-east.manta.joyent.com", "https://manta.example/prefix", ":malformed"}

Signers == {"key-a", "key-b"}
Times == 1..NumTimes

\* what the transport may answer
Statuses == {199, 200, 299, 300, 409}
RespBodies ==
  {[json |-> "object", fields |-> [code |-> "Conflict", message |-> "x"]],
   [json |-> "object", fields |-> [id |-> "abc"]],
   [json |-> "null"],
   [json |-> "array"],
   [json |-> "malformed"],
   [json |-> "empty"]}
RespHeaders == {[rss |-> "0"], [rss |-> "5"]}
Responses ==
  [StatusCode : Statuses \ {200, 299}, bytes : RespBodies, Header : {[rss |-> "0"]}]
    \cup [StatusCode : {200, 299},
          bytes : {[json |-> "object", fields |-> [id |-> "abc"]], [json |-> "empty"]},
          Header : RespHeaders]

\* answers used by the concurrent specification
ConcResponses ==
  [StatusCode : {200, 409},
   bytes : {[json |-> "object", fields |-> [code |-> "Conflict", message |-> "x"]],
            [json |-> "malformed"]},
   Header : {[rss |-> "0"]}]

\* ------------------------------------------------------------------- state
VARIABLES
  env,          \* value of MANTA_URL in the process environment
  authorizers,  \* s.Client.Authorizers
  pc,           \* per call: the statement the call is at
  inputs,       \* per call: the descriptor it was given
  requestBody,  \* per call: local requestBody
  endpoint,     \* per call: local endpoint
  req,          \* per call: local req
  dateHeader,   \* per call: local dateHeader
  signLog,      \* per call: the dates the signer was invoked with
  doLog,        \* per call: the requests handed to the transport
  resp,         \* per call: local resp
  stream,       \* per call: the response body stream
  result,       \* per call: what the call returned
  mpc, mphase, issued, returned, lastErr, exitCode, jobID, items, openItems, stdout

execVars == <<env, authorizers, pc, inputs, requestBody, endpoint, req, dateHeader,
              signLog, doLog, resp, stream, result>>
mainVars == <<mpc, mphase, issued, returned, lastErr, exitCode, jobID, items, openItems, stdout>>
vars == <<execVars, mainVars>>

None == [kind |-> "none"]
NoStream == [open |-> FALSE, read |-> FALSE, owner |-> "none"]
NoResult == [returned |-> FALSE, body |-> None, header |-> None, err |-> NoErr]

\* return body, header, err
Return(body, header, err) == [returned |-> TRUE, body |-> body, header |-> header, err |-> err]

\* -------------------------------------------------------- pure code pieces
\* json.MarshalIndent(body, "", "    ")
MarshalIndent(body) ==
  IF body.kind = "chan"
    THEN [ok |-> FALSE, err |-> [kind |-> "json.UnsupportedTypeError"]]
    ELSE [ok |-> TRUE, bytes |-> [kind |-> "bytes", enc |-> "json-indent-4", of |-> body]]

\* url.Parse on the values MANTA_URL takes here
ParseURL(raw) ==
  CASE raw = "https://us-east.manta.joyent.com" ->
         [ok |-> TRUE, url |-> [Scheme |-> "https", Host |-> "us-east.manta.joyent.com", Path |-> "", RawQuery |-> << >>]]
    [] raw = "https://manta.example/prefix" ->
         [ok |-> TRUE, url |-> [Scheme |-> "https", Host |-> "manta.example", Path |-> "/prefix", RawQuery |-> << >>]]
    [] OTHER -> [ok |-> FALSE, err |-> [kind |-> "url.Error"]]

\* http.NewRequest: rejects a method that is not a token
ValidMethod(method) == method # "BAD METHOD"

\* url.Values.Encode: key=value pairs sorted by key
QueryEncode(m) ==
  LET present(k) == k \in DOMAIN m
      sorted == SelectSeq(<<"limit", "marker">>, present)
  IN [i \in 1..Len(sorted) |-> <<sorted[i], m[sorted[i]]>>]

\* time.Now().UTC().Format(time.RFC1123)
FormatRFC1123(t) == [src |-> "rfc1123", t |-> t]

\* Signer.Sign(dateHeader) of signer `signer`
Sign(signer, date) == [src |-> "signature", keyId |-> signer, over |-> date]

\* body != nil && (headers == nil || headers.Get("Content-Type") == "")
NeedsDefaultContentType_noGet(in) ==
  in.Body.kind # "nil" /\ in.Headers.isNil

NeedsDefaultContentType(in) ==
  in.Body.kind # "nil" /\ (in.Headers.isNil \/ HeaderGet(in.Headers.m, "Content-Type") = EmptyStr)

JSONContentType == [src |-> "default", v |-> "application/json"]

\* lines 196-205: the default Content-Type, then the caller's headers
RequestHeaders_defaultLast(in, encode, order) ==
  LET h1 == IF in.Headers.isNil THEN << >> ELSE MergeHeaders(<< >>, in.Headers.m, order)
  IN IF encode /\ in.Body.kind # "nil"
       THEN HeaderSet(h1, "Content-Type", JSONContentType)
       ELSE h1

RequestHeaders(in, encode, order) ==
  LET h0 == IF encode /\ NeedsDefaultContentType(in)
              THEN HeaderSet(<< >>, "Content-Type", JSONContentType)
              ELSE << >>
  IN IF in.Headers.isNil THEN h0 ELSE MergeHeaders(h0, in.Headers.m, order)

\* req.Header.Set("date", dateHeader)
WithDate_ifAbsent(h, date) ==
  IF "Date" \in DOMAIN h THEN h ELSE HeaderSet(h, "date", date)

WithDate(h, date) == HeaderSet(h, "date", date)

\* lines 214-216
WithAuth(h, authHeader) ==
  HeaderSet(HeaderSet(HeaderSet(h, "Authorization", authHeader),
                      "Accept", [src |-> "default", v |-> "*/*"]),
            "User-Agent", [src |-> "default", v |-> "manta-go client API"])

\* resp.StatusCode >= http.StatusOK && resp.StatusCode < http.StatusMultipleChoices
IsSuccess_inclusive(status) == status >= StatusOK /\ status <= StatusMultipleChoices

IsSuccess(status) == status >= StatusOK /\ status < StatusMultipleChoices

\* mantaError := &MantaError{StatusCode: resp.StatusCode}
NewMantaError_noStatus(status) ==
  [kind |-> "MantaError", StatusCode |-> 0, Code |-> "", Message |-> ""]

NewMantaError(status) ==
  [kind |-> "MantaError", StatusCode |-> status, Code |-> "", Message |-> ""]

\* the JSON fields of MantaError
MantaErrorFields == {"code", "message"}

\* json.NewDecoder(resp.Body).Decode(mantaError)
Decode(target, body) ==
  CASE body.json = "object" ->
         [ok |-> TRUE,
          v |-> [target EXCEPT
                   !.Code = IF "code" \in MantaErrorFields \cap DOMAIN body.fields THEN body.fields.code ELSE @,
                   !.Message = IF "message" \in MantaErrorFields \cap DOMAIN body.fields THEN body.fields.message ELSE @]]
    [] body.json = "null" -> [ok |-> TRUE, v |-> target]
    [] body.json = "array" -> [ok |-> FALSE, err |-> [kind |-> "json.UnmarshalTypeError"]]
    [] body.json = "malformed" -> [ok |-> FALSE, err |-> [kind |-> "json.SyntaxError"]]
    [] OTHER -> [ok |-> FALSE, err |-> [kind |-> "io.EOF"]]

\* lines 235-239: the error the failure path returns
ErrorResult_swallow(mantaError, body) == mantaError

ErrorResult(mantaError, body) ==
  IF Decode(mantaError, body).ok
    THEN Decode(mantaError, body).v
    ELSE Wrapf("Error decoding error response", Decode(mantaError, body).err)

\* the slot holding call p's local dateHeader
DateSlot_shared(p) == "p1"

DateSlot(p) == p

\* ------------------------------------------------------------ the executor
ExecInit ==
  /\ env \in MantaURLs
  /\ authorizers \in {<<"key-a">>, <<"key-b", "key-a">>}
  /\ pc = [p \in Procs |-> "idle"]
  /\ inputs = [p \in Procs |-> None]
  /\ requestBody = [p \in Procs |-> None]
  /\ endpoint = [p \in Procs |-> None]
  /\ req = [p \in Procs |-> None]
  /\ dateHeader = [p \in Procs |-> None]
  /\ signLog = [p \in Procs |-> << >>]
  /\ doLog = [p \in Procs |-> << >>]
  /\ resp = [p \in Procs |-> None]
  /\ stream = [p \in Procs |-> NoStream]
  /\ result = [p \in Procs |-> NoResult]

\* executeRequest is called with a descriptor drawn from D
ExecuteRequest(p, D) ==
  /\ pc[p] = "idle"
  /\ \E in \in D : inputs' = [inputs EXCEPT ![p] = [encode |-> TRUE, in |-> in]]
  /\ pc' = [pc EXCEPT ![p] = "marshal"]
  /\ UNCHANGED <<env, authorizers, requestBody, endpoint, req, dateHeader, signLog,
                 doLog, resp, stream, result, mainVars>>

\* executeRequestNoEncode is called with a descriptor drawn from D; the
\* body is handed to http.NewRequest as it is
ExecuteRequestNoEncode(p, D) ==
  /\ pc[p] = "idle"
  /\ \E in \in D :
       /\ inputs' = [inputs EXCEPT ![p] = [encode |-> FALSE, in |-> in]]
       /\ requestBody' = [requestBody EXCEPT ![p] = IF in.Body.kind = "nil" THEN None ELSE in.Body]
  /\ pc' = [pc EXCEPT ![p] = "parse"]
  /\ UNCHANGED <<env, authorizers, endpoint, req, dateHeader, signLog,
                 doLog, resp, stream, result, mainVars>>

\* if body != nil { marshaled, err := json.MarshalIndent(...) ... }
Marshal(p) ==
  /\ pc[p] = "marshal"
  /\ LET body == inputs[p].in.Body
         m == MarshalIndent(body)
     IN IF body.kind # "nil" /\ ~m.ok
          THEN /\ result' = [result EXCEPT ![p] = Return(None, None, m.err)]
               /\ pc' = [pc EXCEPT ![p] = "done"]
               /\ UNCHANGED requestBody
          ELSE /\ requestBody' = [requestBody EXCEPT ![p] = IF body.kind = "nil" THEN None ELSE m.bytes]
               /\ pc' = [pc EXCEPT ![p] = "parse"]
               /\ UNCHANGED result
  /\ UNCHANGED <<env, authorizers, inputs, endpoint, req, dateHeader, signLog,
                 doLog, resp, stream, mainVars>>

\* endpoint, err := url.Parse(os.Getenv("MANTA_URL")); endpoint.Path = path
ParseEndpoint(p) ==
  /\ pc[p] = "parse"
  /\ LET u == ParseURL(env)
     IN IF ~u.ok
          THEN /\ result' = [result EXCEPT ![p] = Return(None, None, Wrapf("Error parsing MANTA_URL", u.err))]
               /\ pc' = [pc EXCEPT ![p] = "done"]
               /\ UNCHANGED endpoint
          ELSE /\ endpoint' = [endpoint EXCEPT ![p] = [u.url EXCEPT !.Path = inputs[p].in.Path]]
               /\ pc' = [pc EXCEPT ![p] = "newreq"]
               /\ UNCHANGED result
  /\ UNCHANGED <<env, authorizers, inputs, requestBody, req, dateHeader, signLog,
                 doLog, resp, stream, mainVars>>

\* req, err := http.NewRequest(method, endpoint.String(), requestBody)
NewRequest(p) ==
  /\ pc[p] = "newreq"
  /\ IF ~ValidMethod(inputs[p].in.Method)
       THEN /\ result' = [result EXCEPT ![p] =
                  Return(None, None, Wrapf("Error constructing HTTP request", [kind |-> "net/http: invalid method"]))]
            /\ pc' = [pc EXCEPT ![p] = "done"]
            /\ UNCHANGED req
       ELSE /\ req' = [req EXCEPT ![p] =
                  [Method |-> inputs[p].in.Method, URL |-> endpoint[p],
                   Header |-> << >>, Body |-> requestBody[p]]]
            /\ pc' = [pc EXCEPT ![p] = "headers"]
            /\ UNCHANGED result
  /\ UNCHANGED <<env, authorizers, inputs, requestBody, endpoint, dateHeader, signLog,
                 doLog, resp, stream, mainVars>>

\* the default Content-Type and the caller's headers
SetHeaders(p) ==
  /\ pc[p] = "headers"
  /\ \E order \in Perms(DOMAIN inputs[p].in.Headers.m) :
       req' = [req EXCEPT ![p].Header = RequestHeaders(inputs[p].in, inputs[p].encode, order)]
  /\ pc' = [pc EXCEPT ![p] = "date"]
  /\ UNCHANGED <<env, authorizers, inputs, requestBody, endpoint, dateHeader, signLog,
                 doLog, resp, stream, result, mainVars>>

\* dateHeader := time.Now().UTC().Format(time.RFC1123); req.Header.Set("date", dateHeader)
SetDate(p) ==
  /\ pc[p] = "date"
  /\ \E t \in Times :
       /\ dateHeader' = [dateHeader EXCEPT ![DateSlot(p)] = FormatRFC1123(t)]
       /\ req' = [req EXCEPT ![p].Header = WithDate(@, FormatRFC1123(t))]
  /\ pc' = [pc EXCEPT ![p] = "sign"]
  /\ UNCHANGED <<env, authorizers, inputs, requestBody, endpoint, signLog,
                 doLog, resp, stream, result, mainVars>>

\* authHeader, err := s.Client.Authorizers[0].Sign(dateHeader), then the
\* Authorization, Accept and User-Agent headers and the query string
SignRequest(p) ==
  /\ pc[p] = "sign"
  /\ signLog' = [signLog EXCEPT ![p] = Append(@, dateHeader[DateSlot(p)])]
  /\ \E signed \in BOOLEAN :
       IF ~signed
         THEN /\ result' = [result EXCEPT ![p] =
                    Return(None, None, Wrapf("Error signing HTTP request", [kind |-> "signer error"]))]
              /\ pc' = [pc EXCEPT ![p] = "done"]
              /\ UNCHANGED req
         ELSE /\ req' = [req EXCEPT
                    ![p].Header = WithAuth(@, Sign(authorizers[1], dateHeader[DateSlot(p)])),
                    ![p].URL.RawQuery = IF inputs[p].in.Query.isNil THEN @
                                        ELSE QueryEncode(inputs[p].in.Query.m)]
              /\ pc' = [pc EXCEPT ![p] = "do"]
              /\ UNCHANGED result
  /\ UNCHANGED <<env, authorizers, inputs, requestBody, endpoint, dateHeader,
                 doLog, resp, stream, mainVars>>

\* resp, err := s.Client.HTTPClient.Do(req)
Do(p, R) ==
  /\ pc[p] = "do"
  /\ doLog' = [doLog EXCEPT ![p] = Append(@, req[p])]
  /\ \/ /\ result' = [result EXCEPT ![p] =
                Return(None, None, Wrapf("Error executing HTTP request", [kind |-> "transport error"]))]
        /\ pc' = [pc EXCEPT ![p] = "done"]
        /\ UNCHANGED <<resp, stream>>
     \/ /\ \E r \in R :
             resp' = [resp EXCEPT ![p] =
                        [StatusCode |-> r.StatusCode, Header |-> r.Header,
                         Body |-> [kind |-> "resp.Body", of |-> p, bytes |-> r.bytes]]]
        /\ stream' = [stream EXCEPT ![p] = [open |-> TRUE, read |-> FALSE, owner |-> "executor"]]
        /\ pc' = [pc EXCEPT ![p] = "classify"]
        /\ UNCHANGED result
  /\ UNCHANGED <<env, authorizers, inputs, requestBody, endpoint, req, dateHeader,
                 signLog, mainVars>>

\* if resp.StatusCode >= 200 && resp.StatusCode < 300 { return resp.Body, resp.Header, nil }
Classify(p) ==
  /\ pc[p] = "classify"
  /\ IF IsSuccess(resp[p].StatusCode)
       THEN /\ result' = [result EXCEPT ![p] = Return(resp[p].Body, resp[p].Header, NoErr)]
            /\ stream' = [stream EXCEPT ![p].owner = "caller"]
            /\ pc' = [pc EXCEPT ![p] = "done"]
       ELSE /\ pc' = [pc EXCEPT ![p] = "decode"]
            /\ UNCHANGED <<result, stream>>
  /\ UNCHANGED <<env, authorizers, inputs, requestBody, endpoint, req, dateHeader,
                 signLog, doLog, resp, mainVars>>

\* the failure path: decode the body into a MantaError and return it, or
\* return the decode error; resp.Body is read and left as it is
DecodeError(p) ==
  /\ pc[p] = "decode"
  /\ stream' = [stream EXCEPT ![p].read = TRUE]
  /\ result' = [result EXCEPT ![p] =
        Return(None, None, ErrorResult(NewMantaError(resp[p].StatusCode), resp[p].Body.bytes))]
  /\ pc' = [pc EXCEPT ![p] = "done"]
  /\ UNCHANGED <<env, authorizers, inputs, requestBody, endpoint, req, dateHeader,
                 signLog, doLog, resp, mainVars>>

ExecStep(p) ==
  \/ Marshal(p)
  \/ ParseEndpoint(p)
  \/ NewRequest(p)
  \/ SetHeaders(p)
  \/ SetDate(p)
  \/ SignRequest(p)
  \/ Classify(p)
  \/ DecodeError(p)

\* --------------------------------------------------- the example program
\* the statements of main, in program order
Program ==
  <<"ReadFile", "NewPrivateKeySigner", "NewClient", "Create", "AddInputs", "AddInputs",
    "Get", "EndInput", "List", "GetInput", "Sleep", "GetOutput", "return">>

\* the statements that are calls of the job service, or the wait
IsJobCall(name) ==
  name \in {"Create", "AddInputs", "Get", "EndInput", "List", "GetInput", "Sleep", "GetOutput"}

JobIDs == {"job-1", "job-2"}

\* if err != nil { log.Fatalf(...) }
FatalOn_never(err) == FALSE

FatalOn(err) == err

\* lines printed after statement `name` returned: n is the size of the
\* listing it fetched
Printed(name, n) ==
  CASE name = "Create" -> 1
    [] name = "Get" -> 2
    [] name \in {"List", "GetInput", "GetOutput"} -> 1 + n
    [] OTHER -> 0

MainIdle ==
  /\ mpc = 1
  /\ mphase = "call"
  /\ issued = << >>
  /\ returned = << >>
  /\ lastErr = FALSE
  /\ exitCode = -1
  /\ jobID = ""
  /\ items = 0
  /\ openItems = {}
  /\ stdout = 0

\* statement mpc of main runs; it may fail unless it is time.Sleep
MainCall ==
  /\ mphase = "call"
  /\ exitCode = -1
  /\ Program[mpc] # "return"
  /\ issued' = IF IsJobCall(Program[mpc]) THEN Append(issued, Program[mpc]) ELSE issued
  /\ \E err \in BOOLEAN, id \in JobIDs, n \in 0..MaxItems :
       /\ (Program[mpc] = "Sleep") => ~err
       /\ lastErr' = err
       /\ jobID' = IF Program[mpc] = "Create" /\ ~err THEN id ELSE jobID
       /\ items' = IF Program[mpc] \in {"List", "GetInput", "GetOutput"} /\ ~err THEN n ELSE 0
  /\ mphase' = "check"
  /\ UNCHANGED <<execVars, mpc, returned, exitCode, openItems, stdout>>

\* log.Fatalf: the error is logged and the process exits with status 1;
\* deferred calls do not run
MainFatal ==
  /\ mphase = "check"
  /\ FatalOn(lastErr)
  /\ exitCode' = 1
  /\ mphase' = "exited"
  /\ returned' = IF IsJobCall(Program[mpc]) THEN Append(returned, "err") ELSE returned
  /\ UNCHANGED <<execVars, mpc, issued, lastErr, jobID, items, openItems, stdout>>

\* the statement returned without error: defer the Close of a listing
\* stream, print, and go on to the next statement
MainProceed ==
  /\ mphase = "check"
  /\ ~FatalOn(lastErr)
  /\ returned' = IF IsJobCall(Program[mpc])
                   THEN Append(returned, IF lastErr THEN "err" ELSE "ok") ELSE returned
  /\ openItems' = IF Program[mpc] \in {"GetInput", "GetOutput"} /\ ~lastErr
                    THEN openItems \cup {Program[mpc]} ELSE openItems
  /\ stdout' = stdout + Printed(Program[mpc], items)
  /\ mpc' = mpc + 1
  /\ mphase' = "call"
  /\ UNCHANGED <<execVars, issued, lastErr, exitCode, jobID, items>>

\* main returns: the deferred Closes run and the process exits with status 0
MainReturn ==
  /\ mphase = "call"
  /\ exitCode = -1
  /\ Program[mpc] = "return"
  /\ openItems' = {}
  /\ exitCode' = 0
  /\ mphase' = "exited"
  /\ UNCHANGED <<execVars, mpc, issued, returned, lastErr, jobID, items, stdout>>

ExecIdle ==
  /\ ExecInit
  /\ env = "https://us-east.manta.joyent.com"
  /\ authorizers = <<"key-a">>

InitMain == ExecIdle /\ MainIdle

NextMain == MainCall \/ MainFatal \/ MainProceed \/ MainReturn

SpecMain == InitMain /\ [][NextMain]_vars

Init == ExecInit /\ MainIdle

Next ==
  \E p \in Solo :
    \/ ExecuteRequest(p, RequestInputs)
    \/ ExecuteRequestNoEncode(p, RequestNoEncodeInputs)
    \/ ExecStep(p)
    \/ Do(p, Responses)

Spec == Init /\ [][Next]_vars

NextConc ==
  \E p \in Procs :
    \/ ExecuteRequest(p, ConcRequestInputs)
    \/ ExecuteRequestNoEncode(p, ConcRequestNoEncodeInputs)
    \/ ExecStep(p)
    \/ Do(p, ConcResponses)

\* one client, one signer, calls issued from two concurrent contexts
InitConc == Init /\ authorizers = <<"key-a">>

SpecConc == InitConc /\ [][NextConc]_vars

\* ------------------------------------------------------------- properties
\* the status codes the specification calls success
In2xx(status) == status \in 200..299

Returned(p) == pc[p] = "done"
GotResponse(p) == resp[p] # None
Sent(p) == doLog[p] # << >>
SentRequest(p) == doLog[p][1]

\* the values the caller's map would leave under canonical name c: the last
\* value of each non-empty list stored under a key that canonicalizes to c
CallerValues(in, c) ==
  {Last(in.Headers.m[k]) :
     k \in {x \in DOMAIN in.Headers.m : CanonicalKey(x) = c /\ in.Headers.m[x] # << >>}}

CallerNames(in) ==
  {CanonicalKey(k) : k \in {x \in DOMAIN in.Headers.m : in.Headers.m[x] # << >>}}

\* the headers the executor sets after merging the caller's
ExecutorNames == {"Date", "Authorization", "Accept", "User-Agent"}

Decodable(body) == body.json \in {"object", "null"}
Field(body, f) ==
  IF body.json = "object" /\ f \in DOMAIN body.fields THEN body.fields[f] ELSE ""

\* C1 as stated: every response with a status outside [200,300) makes the
\* call fail with a MantaError carrying that status and the decoded fields,
\* whatever the body contains.
C1_AnyBodyGivesMantaError ==
  \A p \in Procs :
    (Returned(p) /\ GotResponse(p) /\ ~In2xx(resp[p].StatusCode)) =>
      /\ result[p].err.kind = "MantaError"
      /\ result[p].err.StatusCode = resp[p].StatusCode

\* C1 amended: every response with a status outside [200,300) whose body
\* decodes as a JSON error value makes the call fail with a MantaError
\* carrying exactly that status and the decoded code and message; a body
\* that does not decode makes it fail with the wrapped decode error instead.
C1_DecodableBodyGivesMantaError ==
  \A p \in Procs :
    (Returned(p) /\ GotResponse(p) /\ ~In2xx(resp[p].StatusCode)) =>
      IF Decodable(resp[p].Body.bytes)
        THEN result[p] = Return(None, None,
                                [kind |-> "MantaError",
                                 StatusCode |-> resp[p].StatusCode,
                                 Code |-> Field(resp[p].Body.bytes, "code"),
                                 Message |-> Field(resp[p].Body.bytes, "message")])
        ELSE /\ result[p].err.kind = "wrapped"
             /\ result[p].err.context = "Error decoding error response"

C1_Witness ==
  \E p \in Procs :
    /\ Returned(p) /\ GotResponse(p)
    /\ resp[p].StatusCode = 409
    /\ result[p].err.kind = "MantaError"
    /\ result[p].err.StatusCode = 409
    /\ result[p].err.Message = "x"

\* C2 as stated: for every header name the caller supplies, the request
\* handed to the transport carries the caller's value.
C2_CallerWinsEveryHeader ==
  \A p \in Procs :
    Sent(p) =>
      \A c \in CallerNames(inputs[p].in) :
        /\ c \in DOMAIN SentRequest(p).Header
        /\ SentRequest(p).Header[c] \in CallerValues(inputs[p].in, c)

\* C2 amended: for every header name the caller supplies other than date,
\* Authorization, Accept and User-Agent (names compared in canonical form),
\* the request handed to the transport carries the caller's value (the last
\* one listed), not the executor's default; those four names always carry
\* the executor's own values.
C2_CallerWinsOverDefault ==
  \A p \in Procs :
    Sent(p) =>
      /\ \A c \in CallerNames(inputs[p].in) \ ExecutorNames :
           /\ c \in DOMAIN SentRequest(p).Header
           /\ SentRequest(p).Header[c] \in CallerValues(inputs[p].in, c)
      /\ \A c \in ExecutorNames :
           /\ c \in DOMAIN SentRequest(p).Header
           /\ SentRequest(p).Header[c].src \in {"rfc1123", "signature", "default"}

C2_Witness ==
  \E p \in Procs :
    /\ Sent(p)
    /\ inputs[p].encode /\ inputs[p].in.Body.kind = "value"
    /\ "Content-Type" \in DOMAIN inputs[p].in.Headers.m
    /\ "date" \in DOMAIN inputs[p].in.Headers.m
    /\ SentRequest(p).Header["Content-Type"] = CallerVal("Content-Type", 2)
    /\ SentRequest(p).Header["Date"].src = "rfc1123"

\* C3 as stated: every error of the configuration, encoding, construction,
\* signing, transport and decode phases comes back wrapped with context
\* naming the phase, and the signer and the transport are each invoked at
\* most once per call.
C3_EveryErrorWrapped ==
  \A p \in Procs :
    /\ Len(signLog[p]) <= 1
    /\ Len(doLog[p]) <= 1
    /\ (Returned(p) /\ result[p].err.kind \notin {"none", "MantaError"}) =>
         result[p].err.kind = "wrapped"

\* C4: once the signer has been invoked the request already carries a date
\* header, the signer was given exactly that value, and the request handed
\* to the transport carries as Authorization the signer's output for the
\* date value in its own date header; neither header changes afterwards.
\* The Authorization value is a function of the signer and the date.
C4_AuthorizationCoversDate ==
  \A p \in Procs :
    /\ (signLog[p] # << >>) =>
         /\ "Date" \in DOMAIN req[p].Header
         /\ req[p].Header["Date"].src = "rfc1123"
         /\ signLog[p] = <<req[p].Header["Date"]>>
    /\ Sent(p) =>
         /\ SentRequest(p).Header["Authorization"] =
              Sign(authorizers[1], SentRequest(p).Header["Date"])
         /\ req[p].Header["Date"] = SentRequest(p).Header["Date"]
         /\ req[p].Header["Authorization"] = SentRequest(p).Header["Authorization"]

C4_Witness ==
  \E p \in Procs :
    /\ Sent(p)
    /\ "date" \in DOMAIN inputs[p].in.Headers.m
    /\ inputs[p].in.Headers.m["date"] # << >>
    /\ SentRequest(p).Header["Date"] = FormatRFC1123(2)
    /\ SentRequest(p).Header["Authorization"] = Sign("key-b", FormatRFC1123(2))

\* C5: a call succeeds exactly when the transport returned a response with
\* a status in [200,300); then it returns that response's own body stream,
\* unread, and its headers, with a nil error; in every other case it
\* returns no stream, no headers and a non-nil error.
C5_SuccessIff2xx ==
  \A p \in Procs :
    Returned(p) =>
      IF GotResponse(p) /\ In2xx(resp[p].StatusCode)
        THEN /\ result[p] = Return(resp[p].Body, resp[p].Header, NoErr)
             /\ stream[p] = [open |-> TRUE, read |-> FALSE, owner |-> "caller"]
        ELSE /\ result[p].returned
             /\ result[p].body = None
             /\ result[p].header = None
             /\ result[p].err # NoErr

C5_Witness ==
  \E p \in Procs :
    /\ Returned(p) /\ GotResponse(p)
    /\ resp[p].StatusCode = 299
    /\ result[p].err = NoErr
    /\ result[p].body.bytes = [json |-> "object", fields |-> [id |-> "abc"]]
    /\ result[p].header = [rss |-> "5"]

\* C6: when the body of a response with a status outside [200,300) does
\* not decode, the call fails with the wrapped decode error, which is not a
\* MantaError; no such response yields a success result; and the decode
\* context on an error is given only for a response the service answered
\* with a status outside [200,300).
C6_DecodeFailureSurfaced ==
  \A p \in Procs :
    Returned(p) =>
      /\ (GotResponse(p) /\ ~In2xx(resp[p].StatusCode)) =>
           /\ result[p].err # NoErr
           /\ result[p].body = None
           /\ ~Decodable(resp[p].Body.bytes) =>
                /\ result[p].err.kind = "wrapped"
                /\ result[p].err.context = "Error decoding error response"
                /\ result[p].err.cause.kind \in
                     {"json.SyntaxError", "json.UnmarshalTypeError", "io.EOF"}
      /\ (result[p].err.kind = "wrapped" /\ result[p].err.context = "Error decoding error response") =>
           (GotResponse(p) /\ ~In2xx(resp[p].StatusCode))

C6_Witness ==
  \E p \in Procs :
    /\ Returned(p) /\ GotResponse(p)
    /\ resp[p].StatusCode = 300
    /\ resp[p].Body.bytes.json = "empty"
    /\ result[p].err = Wrapf("Error decoding error response", [kind |-> "io.EOF"])

\* the order in which the example program calls the job service
CallOrder ==
  <<"Create", "AddInputs", "AddInputs", "Get", "EndInput", "List", "GetInput", "Sleep",
    "GetOutput">>

\* C7: the example program issues its calls in the fixed order; a call is
\* issued only after every earlier call returned without error; a call
\* that returned an error is the last one issued, and the program then
\* exits with status 1, issuing nothing further.
C7_FixedOrderFatalErrors ==
  /\ [](/\ Len(issued) <= Len(CallOrder)
        /\ issued = SubSeq(CallOrder, 1, Len(issued))
        /\ Len(returned) \in {Len(issued) - 1, Len(issued)}
        /\ \A i \in 1..Len(returned) : (i < Len(issued)) => returned[i] = "ok"
        /\ (exitCode = 1) => (mphase = "exited" /\ lastErr)
        /\ (exitCode = 0) => (issued = CallOrder /\ \A i \in 1..Len(returned) : returned[i] = "ok"))
  /\ [][/\ (mphase = "check" /\ lastErr) => (exitCode' = 1 /\ issued' = issued)
        /\ (exitCode # -1) => (issued' = issued /\ exitCode' = exitCode)]_vars

C7_Witness ==
  /\ exitCode = 1
  /\ issued = SubSeq(CallOrder, 1, 6)
  /\ returned = <<"ok", "ok", "ok", "ok", "ok", "err">>
  /\ jobID = "job-2"

\* what one call on its own makes of descriptor d, clock reading date and
\* the configured endpoint and signer
AloneRequests(d, date) ==
  {[Method |-> d.in.Method,
    URL |-> [ParseURL(env).url EXCEPT
               !.Path = d.in.Path,
               !.RawQuery = IF d.in.Query.isNil THEN @ ELSE QueryEncode(d.in.Query.m)],
    Header |-> WithAuth(WithDate(RequestHeaders(d.in, d.encode, order), date),
                        Sign(authorizers[1], date)),
    Body |-> IF d.in.Body.kind = "nil" THEN None
             ELSE IF d.encode THEN MarshalIndent(d.in.Body).bytes ELSE d.in.Body] :
     order \in Perms(DOMAIN d.in.Headers.m)}

AloneResult(r) ==
  IF In2xx(r.StatusCode) THEN Return(r.Body, r.Header, NoErr)
  ELSE Return(None, None, ErrorResult(NewMantaError(r.StatusCode), r.Body.bytes))

\* C8: in every interleaving of two concurrent calls, the request each call
\* hands to the transport, the date it gives the signer and the result it
\* returns are those the call would produce alone from its own descriptor,
\* its own clock reading and its own response.
C8_CallsIndependent ==
  \A p \in Procs :
    /\ (signLog[p] # << >>) => signLog[p] = <<req[p].Header["Date"]>>
    /\ Sent(p) =>
         /\ doLog[p] = <<req[p]>>
         /\ SentRequest(p) \in AloneRequests(inputs[p], req[p].Header["Date"])
    /\ GotResponse(p) => resp[p].Body.of = p
    /\ (Returned(p) /\ GotResponse(p)) => result[p] = AloneResult(resp[p])

C8_Witness ==
  /\ Returned("p1") /\ Returned("p2")
  /\ GotResponse("p1") /\ GotResponse("p2")
  /\ req["p1"].Header["Date"] # req["p2"].Header["Date"]
  /\ inputs["p1"].in.Path # inputs["p2"].in.Path
  /\ result["p1"].err = NoErr
  /\ result["p2"].err.kind = "MantaError"

\* C9: for a descriptor with a structured body the request handed to the
\* transport carries Content-Type application/json exactly when the caller
\* supplied no Content-Type value, and the caller's value otherwise; for a
\* descriptor with no body or a raw stream body it carries a Content-Type
\* only if the caller supplied one.
C9_ContentTypeDefault ==
  \A p \in Procs :
    Sent(p) =>
      LET in == inputs[p].in
          h == SentRequest(p).Header
          supplied == CallerValues(in, "Content-Type")
      IN IF supplied # {}
           THEN "Content-Type" \in DOMAIN h /\ h["Content-Type"] \in supplied
           ELSE IF inputs[p].encode /\ in.Body.kind # "nil"
                  THEN "Content-Type" \in DOMAIN h /\ h["Content-Type"] = JSONContentType
                  ELSE "Content-Type" \notin DOMAIN h

C9_Witness ==
  \E p \in Procs :
    /\ Sent(p)
    /\ inputs[p].encode /\ inputs[p].in.Body.kind = "value"
    /\ ~inputs[p].in.Headers.isNil
    /\ DOMAIN inputs[p].in.Headers.m = {"X-Durability-Level"}
    /\ SentRequest(p).Header["Content-Type"] = JSONContentType

\* C10 as stated: when a call has returned, the response body stream it
\* obtained has been handed to the caller or closed.
C10_NoOrphanStream ==
  \A p \in Procs :
    (Returned(p) /\ GotResponse(p)) =>
      (stream[p].owner = "caller" \/ ~stream[p].open)

====
